---- MODULE Spec2Model ----
(***************************************************************************)
(* Model of the batch plan fragmenter                                      *)
(* (src/frontend/src/scheduler/plan_fragmenter.rs).                        *)
(*                                                                         *)
(* BatchPlanFragmenter::split walks a plan tree recursively.  The         *)
(* recursion new_stage -> visit_node -> visit_exchange -> new_stage is     *)
(* modelled with an explicit call stack: every frame holds the locals of   *)
(* one activation, and `&mut` references to a caller's local are stack     *)
(* indices of the frame that owns the local.                               *)
(***************************************************************************)
EXTENDS Integers, Sequences, FiniteSets, TLC

\* ---------------------------------------------------------------- bounds
MaxNodes == 6
MaxWorkers == 3
\* operators of a plan whose exchanges need not be unary
MaxMalformedNodes == 4
\* stage ids handed to a Stage Graph Builder that is driven directly
MaxBuilderIds == 2
\* operators of a plan that is split while the cluster membership changes
MaxMembershipNodes == 4

\* Option<T>: None is the empty sequence, Some(x) the one-element sequence.
None == << >>
Some(x) == << x >>
IsSome(o) == o # << >>
Unwrap(o) == o[1]

\* HashMap::new / HashMap::insert (insert replaces the value of a present key).
EmptyMap == << >>
Insert(m, k, v) == [x \in (DOMAIN m) \cup {k} |-> IF x = k THEN v ELSE m[x]]

Last(s) == s[Len(s)]
Pop(s) == SubSeq(s, 1, Len(s) - 1)

\* rev left out: the sequence as collected
rev_forgotten(s) == s

\* Iterator::rev
rev(s) == [i \in 1..Len(s) |-> s[Len(s) + 1 - i]]

\* the orders in which iterating a HashSet can yield its elements
Orders(S) ==
    { f \in [1..Cardinality(S) -> S] : \A x \in S : \E i \in DOMAIN f : f[i] = x }

RECURSIVE SortedSeq(_)
SortedSeq(S) ==
    IF S = {} THEN << >>
    ELSE LET m == CHOOSE x \in S : \A y \in S : x <= y
         IN << m >> \o SortedSeq(S \ {m})

\* ------------------------------------------------------------ input plans
\* A plan is a tree over the node ids 1..Len(parent), numbered in pre-order;
\* parent[n] is the operator that has n among its inputs (0 for the root),
\* and the inputs of an operator are ordered by id (left to right).
PlanNodeType == {"BatchExchange", "BatchSeqScan", "BatchProject", "BatchHashJoin"}
Distribution == {"Any", "Single", "HashShard"}
\* the distributions an exchange is built with (tests: HashShard, Single)
ExchangeDistribution == {"Single", "HashShard"}

PlanSize(p) == Len(p.parent)
inputs(p, n) == SortedSeq({c \in 1..PlanSize(p) : p.parent[c] = n})

RECURSIVE Ancestors(_, _)
Ancestors(par, n) == IF n = 0 THEN {} ELSE {n} \cup Ancestors(par, par[n])

\* parent vectors of the ordered trees with k nodes, in pre-order numbering
RECURSIVE Shapes(_)
Shapes(k) ==
    IF k = 1 THEN { << 0 >> }
    ELSE UNION { { Append(s, q) : q \in Ancestors(s, k - 1) } : s \in Shapes(k - 1) }

Arity(par, n) == Cardinality({c \in 1..Len(par) : par[c] = n})

\* The operator kinds the tests build: BatchSeqScan has no input, BatchExchange
\* and BatchProject have one, BatchHashJoin has two.
TypesOf(k) ==
    CASE k = 0 -> {"BatchSeqScan"}
      [] k = 1 -> {"BatchExchange", "BatchProject"}
      [] k = 2 -> {"BatchHashJoin"}
      [] OTHER -> {}

TypesFor(par) ==
    { t \in [1..Len(par) -> PlanNodeType] :
        \A n \in 1..Len(par) : t[n] \in TypesOf(Arity(par, n)) }

DistsFor(ty) ==
    { d \in [1..Len(ty) -> Distribution] :
        \A n \in 1..Len(ty) : IF ty[n] = "BatchExchange"
                              THEN d[n] \in ExchangeDistribution
                              ELSE d[n] = "Any" }

PlansOfShape(par) ==
    UNION { { [parent |-> par, type |-> ty, dist |-> di] : di \in DistsFor(ty) }
            : ty \in TypesFor(par) }

Plans == UNION { UNION { PlansOfShape(par) : par \in Shapes(k) } : k \in 1..MaxNodes }

MembershipPlans ==
    UNION { UNION { PlansOfShape(par) : par \in Shapes(k) } : k \in 1..MaxMembershipNodes }

\* The plans the PlanRef interface allows: inputs() of an operator whose
\* node_type() is BatchExchange may hold no operator, one, or two.
TypesOfAny(k) ==
    CASE k = 0 -> {"BatchSeqScan", "BatchExchange"}
      [] k = 1 -> {"BatchExchange", "BatchProject"}
      [] k = 2 -> {"BatchHashJoin", "BatchExchange"}
      [] OTHER -> {}

TypesForAny(par) ==
    { t \in [1..Len(par) -> PlanNodeType] :
        \A n \in 1..Len(par) : t[n] \in TypesOfAny(Arity(par, n)) }

\* an exchange operator of p whose number of inputs is not 1
MalformedExchanges(p) ==
    { n \in 1..PlanSize(p) : p.type[n] = "BatchExchange" /\ Arity(p.parent, n) # 1 }

MalformedPlans ==
    { p \in UNION { UNION { UNION { { [parent |-> par, type |-> ty, dist |-> di] :
                                        di \in DistsFor(ty) }
                                    : ty \in TypesForAny(par) }
                            : par \in Shapes(k) }
                    : k \in 1..MaxMalformedNodes } :
        MalformedExchanges(p) # {} }

NumExchanges(p) == Cardinality({n \in 1..PlanSize(p) : p.type[n] = "BatchExchange"})

\* ------------------------------------------------------ ExecutionPlanNode
ExecutionPlanNode_from(p, n) ==
    [plan_node_id |-> n,
     plan_node_type |-> p.type[n],
     children |-> << >>,
     stage_id |-> None]

\* Distribution::to_prost(parallelism): the wire ExchangeInfo of a
\* distribution for a given number of consumers.
to_prost(dist, parallelism) == [mode |-> dist, output_count |-> parallelism]

\* ------------------------------------------------------ QueryStageBuilder
QueryStageBuilder_new(root, id, parallelism, parent_parallelism, exchange_info) ==
    [id |-> id,
     plan_root |-> root,
     root |-> None,
     parallelism |-> parallelism,
     parent_parallelism |-> parent_parallelism,
     exchange_info |-> exchange_info,
     children_stages |-> << >>]

\* ------------------------------------------------------ StageGraphBuilder
StageGraphBuilder_new ==
    [stages |-> EmptyMap, child_edges |-> EmptyMap, parent_edges |-> EmptyMap]

\* add_node that initializes child_edges only
add_node_no_parent_edges(g, stage) ==
    [stages |-> Insert(g.stages, stage.id, stage),
     child_edges |-> Insert(g.child_edges, stage.id, {}),
     parent_edges |-> g.parent_edges]

add_node(g, stage) ==
    [stages |-> Insert(g.stages, stage.id, stage),
     child_edges |-> Insert(g.child_edges, stage.id, {}),
     parent_edges |-> Insert(g.parent_edges, stage.id, {})]

\* the two unwrap() calls of link_to_child succeed
link_to_child_ok(g, parent_id, child_id) ==
    /\ parent_id \in DOMAIN g.child_edges
    /\ child_id \in DOMAIN g.parent_edges

\* link_to_child that records the parent -> child direction only
link_to_child_one_way(g, parent_id, child_id) ==
    [g EXCEPT !.child_edges[parent_id] = @ \cup {child_id}]

\* link_to_child with its two arguments taken in the other order
link_to_child_swapped(g, parent_id, child_id) ==
    [g EXCEPT !.child_edges[child_id] = @ \cup {parent_id},
              !.parent_edges[parent_id] = @ \cup {child_id}]

link_to_child(g, parent_id, child_id) ==
    [g EXCEPT !.child_edges[parent_id] = @ \cup {child_id},
              !.parent_edges[child_id] = @ \cup {parent_id}]

build(g, root_stage_id) ==
    [root_stage_id |-> root_stage_id,
     stages |-> g.stages,
     child_edges |-> g.child_edges,
     parent_edges |-> g.parent_edges]

\* the QueryStage that QueryStageBuilder::finish wraps up
QueryStage_of(b) ==
    [id |-> b.id,
     root |-> Unwrap(b.root),
     exchange_info |-> b.exchange_info,
     parallelism |-> b.parallelism]

\* the loop of finish with link_to_child(child_stage.id, self.id)
RECURSIVE link_children_child_first(_, _, _, _)
link_children_child_first(g, id, children, i) ==
    IF i > Len(children) THEN g
    ELSE link_children_child_first(link_to_child(g, children[i].id, id),
                                   id, children, i + 1)

\* the loop of finish over children_stages, from position i on
RECURSIVE link_children(_, _, _, _)
link_children(g, id, children, i) ==
    IF i > Len(children) THEN g
    ELSE link_children(link_to_child(g, id, children[i].id), id, children, i + 1)

RECURSIVE link_children_ok(_, _, _, _)
link_children_ok(g, id, children, i) ==
    IF i > Len(children) THEN TRUE
    ELSE /\ link_to_child_ok(g, id, children[i].id)
         /\ link_children_ok(link_to_child(g, id, children[i].id), id, children, i + 1)

\* finish runs to its end: root is Some and every link_to_child finds its keys
finish_ok(b, g) ==
    /\ IsSome(b.root)
    /\ link_children_ok(add_node(g, QueryStage_of(b)), b.id, b.children_stages, 1)

finish(b, g) ==
    link_children(add_node(g, QueryStage_of(b)), b.id, b.children_stages, 1)

\* ---------------------------------------------------- BatchPlanFragmenter
\* the counter left as it was
next_id_after_stuck(next) == next

\* the counter stepped down
next_id_after_down(next) == next - 1

\* the counter stepped by two
next_id_after_skip(next) == next + 2

\* new_stage: the counter after `self.next_stage_id += 1` (a u32; a plan of
\* at most MaxNodes operators allocates at most MaxNodes ids, far from 2^32)
next_id_after(next) == next + 1

\* the worker count also for the root stage
stage_parallelism_always_workers(parent_parallelism, w) == w

\* the parallelism of the parent stage instead of the worker count
stage_parallelism_inherited(parent_parallelism, w) ==
    IF IsSome(parent_parallelism) THEN Unwrap(parent_parallelism) ELSE 1

\* new_stage: worker_node_count() is called for the root stage too
calls_worker_node_count_always(parent_parallelism) == TRUE

\* new_stage: the arm of `match parent_parallelism` that calls
\* worker_node_count() is taken
calls_worker_node_count(parent_parallelism) == IsSome(parent_parallelism)

\* new_stage: parallelism of the stage, w the worker_node_count() read
stage_parallelism(parent_parallelism, w) ==
    IF IsSome(parent_parallelism) THEN w ELSE 1

\* the root stage's exchange_info for every stage
stage_exchange_info_always_single(exchange_info) == to_prost("Single", 1)

\* new_stage: exchange_info of the stage
stage_exchange_info(exchange_info) ==
    IF IsSome(exchange_info) THEN Unwrap(exchange_info) ELSE to_prost("Single", 1)

\* visit_node: the branch taken
is_exchange(p, n) == p.type[n] = "BatchExchange"

\* builder.parent_parallelism taken for builder.parallelism
child_exchange_info_parent_parallelism(p, n, builder) ==
    Some(to_prost(p.dist[n],
                  IF IsSome(builder.parent_parallelism)
                  THEN Unwrap(builder.parent_parallelism) ELSE 1))

\* visit_exchange: the exchange_info handed to the child stage
child_exchange_info(p, n, builder) == Some(to_prost(p.dist[n], builder.parallelism))

\* the exchange node left without its stage_id
with_stage_id_unset(exec_node, child_stage) == exec_node

\* the exchange node given the id before the one of its child stage
with_stage_id_off_by_one(exec_node, child_stage) ==
    [exec_node EXCEPT !.stage_id = Some(child_stage.id - 1)]

\* visit_exchange: the exchange node once the child stage is known
with_stage_id(exec_node, child_stage) ==
    [exec_node EXCEPT !.stage_id = Some(child_stage.id)]

VARIABLES
    plan,                 \* the PlanRef handed to split
    workers,              \* what worker_node_count() returns
    pc,                   \* "new", "split", "done" or "panic"
    stack,                \* call stack below split
    next_stage_id,        \* BatchPlanFragmenter.next_stage_id
    stage_graph_builder,  \* BatchPlanFragmenter.stage_graph_builder
    root_stage,           \* split's local root_stage
    query,                \* the Query split returned
    reads,                \* number of worker_node_count() calls so far
    topo_pc,              \* stage_ids_by_topo_order: "idle", "loop", "returned", "panic"
    topo_stack,           \* its local stack
    topo_ret,             \* its local ret
    topo_existing,        \* its local existing
    topo_order,           \* the sequence its iterator yields
    get_parents_call,     \* the last call of Query::get_parents and its outcome
    builder_call          \* the last StageGraphBuilder operation called directly

topo_vars == << topo_pc, topo_stack, topo_ret, topo_existing, topo_order >>

api_vars == << get_parents_call, builder_call >>

vars == << plan, workers, pc, stack, next_stage_id, stage_graph_builder,
           root_stage, query, reads, topo_vars, api_vars >>

Frame(fn, node, parent_exec_node, builder_ref, parent_parallelism, exchange_info) ==
    [fn |-> fn,
     pc |-> "entry",
     node |-> node,
     parent_exec_node |-> parent_exec_node,   \* 0: None, else index of the owner
     builder_ref |-> builder_ref,             \* index of the frame owning builder
     parent_parallelism |-> parent_parallelism,
     exchange_info |-> exchange_info,
     builder |-> None,
     execution_plan_node |-> None,
     i |-> 1,
     child_stage |-> None]

Top == stack[Len(stack)]
Running(fn, at) ==
    /\ pc = "split"
    /\ stack # << >>
    /\ Top.fn = fn
    /\ Top.pc = at

\* the node put in front of its parent's children instead of at their end
Attach_in_front(stk, f, exec_node) ==
    IF f.parent_exec_node # 0
    THEN [stk EXCEPT ![f.parent_exec_node].execution_plan_node =
            Some([Unwrap(@) EXCEPT !.children = << exec_node >> \o @])]
    ELSE [stk EXCEPT ![f.builder_ref].builder =
            Some([Unwrap(@) EXCEPT !.root = Some(exec_node)])]

\* every node installed as the root of the builder, parent or not
Attach_root_every_node(stk, f, exec_node) ==
    [stk EXCEPT ![f.builder_ref].builder =
        Some([Unwrap(@) EXCEPT !.root = Some(exec_node)])]

\* `parent.children.push(..)` or `builder.root = Some(..)`, in stack stk
Attach(stk, f, exec_node) ==
    IF f.parent_exec_node # 0
    THEN [stk EXCEPT ![f.parent_exec_node].execution_plan_node =
            Some([Unwrap(@) EXCEPT !.children = Append(@, exec_node)])]
    ELSE [stk EXCEPT ![f.builder_ref].builder =
            Some([Unwrap(@) EXCEPT !.root = Some(exec_node)])]

\* BatchPlanFragmenter::new, and nothing called yet
Fresh ==
    /\ pc = "new"
    /\ stack = << >>
    /\ next_stage_id = 0
    /\ stage_graph_builder = StageGraphBuilder_new
    /\ root_stage = None
    /\ query = None
    /\ reads = 0
    /\ topo_pc = "idle"
    /\ topo_stack = << >>
    /\ topo_ret = << >>
    /\ topo_existing = {}
    /\ topo_order = << >>
    /\ get_parents_call = None
    /\ builder_call = None

Init ==
    /\ plan \in Plans
    /\ workers \in 0..MaxWorkers
    /\ Fresh

\* split, up to the call of new_stage(batch_node, None, None)
split_call ==
    /\ pc = "new"
    /\ pc' = "split"
    /\ stack' = << Frame("new_stage", 1, 0, 0, None, None) >>
    /\ UNCHANGED << plan, workers, next_stage_id, stage_graph_builder,
                    root_stage, query, reads, topo_vars, api_vars >>

\* new_stage, up to the call of visit_node(root, &mut builder, None)
new_stage_entry ==
    /\ Running("new_stage", "entry")
    /\ LET f == Top
           parallelism == stage_parallelism(f.parent_parallelism, workers)
           exchange_info == stage_exchange_info(f.exchange_info)
           builder == QueryStageBuilder_new(f.node, next_stage_id, parallelism,
                                            f.parent_parallelism, exchange_info)
           me == Len(stack)
       IN /\ stack' = Append([stack EXCEPT ![me] =
                                 [f EXCEPT !.pc = "finish", !.builder = Some(builder)]],
                             Frame("visit_node", f.node, 0, me, None, None))
          /\ reads' = IF calls_worker_node_count(f.parent_parallelism)
                       THEN reads + 1 ELSE reads
    /\ next_stage_id' = next_id_after(next_stage_id)
    /\ UNCHANGED << plan, workers, pc, stage_graph_builder, root_stage, query, topo_vars, api_vars >>

\* visit_node on an exchange: the call of visit_exchange
visit_node_exchange ==
    /\ Running("visit_node", "entry")
    /\ is_exchange(plan, Top.node)
    /\ LET f == Top
       IN stack' = Append([stack EXCEPT ![Len(stack)].pc = "return"],
                          Frame("visit_exchange", f.node, f.parent_exec_node,
                                f.builder_ref, None, None))
    /\ UNCHANGED << plan, workers, pc, next_stage_id, stage_graph_builder,
                    root_stage, query, reads, topo_vars, api_vars >>

\* visit_node on an exchange: visit_exchange returned
visit_node_return ==
    /\ Running("visit_node", "return")
    /\ stack' = Pop(stack)
    /\ UNCHANGED << plan, workers, pc, next_stage_id, stage_graph_builder,
                    root_stage, query, reads, topo_vars, api_vars >>

\* visit_node on any other operator: the ExecutionPlanNode is created
visit_node_other ==
    /\ Running("visit_node", "entry")
    /\ ~ is_exchange(plan, Top.node)
    /\ stack' = [stack EXCEPT
                    ![Len(stack)].pc = "loop",
                    ![Len(stack)].execution_plan_node =
                        Some(ExecutionPlanNode_from(plan, Top.node))]
    /\ UNCHANGED << plan, workers, pc, next_stage_id, stage_graph_builder,
                    root_stage, query, reads, topo_vars, api_vars >>

\* visit_node: one iteration of `for child in node.inputs()`
visit_node_child ==
    /\ Running("visit_node", "loop")
    /\ Top.i <= Len(inputs(plan, Top.node))
    /\ LET f == Top
           me == Len(stack)
       IN stack' = Append([stack EXCEPT ![me].i = @ + 1],
                          Frame("visit_node", inputs(plan, f.node)[f.i], me,
                                f.builder_ref, None, None))
    /\ UNCHANGED << plan, workers, pc, next_stage_id, stage_graph_builder,
                    root_stage, query, reads, topo_vars, api_vars >>

\* visit_node: after the loop, the node is attached and visit_node returns
visit_node_attach ==
    /\ Running("visit_node", "loop")
    /\ Top.i > Len(inputs(plan, Top.node))
    /\ stack' = Pop(Attach(stack, Top, Unwrap(Top.execution_plan_node)))
    /\ UNCHANGED << plan, workers, pc, next_stage_id, stage_graph_builder,
                    root_stage, query, reads, topo_vars, api_vars >>

\* visit_exchange, up to the call of new_stage(node.inputs()[0], ..)
visit_exchange_entry ==
    /\ Running("visit_exchange", "entry")
    /\ Len(inputs(plan, Top.node)) >= 1
    /\ LET f == Top
           builder == Unwrap(stack[f.builder_ref].builder)
       IN stack' = Append([stack EXCEPT
                              ![Len(stack)].pc = "linked",
                              ![Len(stack)].execution_plan_node =
                                  Some(ExecutionPlanNode_from(plan, f.node))],
                          Frame("new_stage", inputs(plan, f.node)[1], 0, 0,
                                Some(builder.parallelism),
                                child_exchange_info(plan, f.node, builder)))
    /\ UNCHANGED << plan, workers, pc, next_stage_id, stage_graph_builder,
                    root_stage, query, reads, topo_vars, api_vars >>

\* visit_exchange on an exchange without input: `node.inputs()[0]` is out of
\* bounds and the thread panics
visit_exchange_panic ==
    /\ Running("visit_exchange", "entry")
    /\ Len(inputs(plan, Top.node)) = 0
    /\ pc' = "panic"
    /\ UNCHANGED << plan, workers, stack, next_stage_id, stage_graph_builder,
                    root_stage, query, reads, topo_vars, api_vars >>

\* new_stage: visit_node returned; builder.finish(..) and the return
new_stage_finish ==
    /\ Running("new_stage", "finish")
    /\ LET b == Unwrap(Top.builder)
       IN IF finish_ok(b, stage_graph_builder)
          THEN /\ stage_graph_builder' = finish(b, stage_graph_builder)
               /\ pc' = pc
               /\ IF Len(stack) = 1
                  THEN /\ root_stage' = Some(QueryStage_of(b))
                       /\ stack' = << >>
                  ELSE /\ root_stage' = root_stage
                       /\ stack' = [Pop(stack) EXCEPT ![Len(stack) - 1].child_stage =
                                       Some(QueryStage_of(b))]
          ELSE /\ pc' = "panic"
               /\ UNCHANGED << stack, stage_graph_builder, root_stage >>
    /\ UNCHANGED << plan, workers, next_stage_id, query, reads, topo_vars, api_vars >>

\* visit_exchange: new_stage returned; stage_id, attach, children_stages.push
visit_exchange_linked ==
    /\ Running("visit_exchange", "linked")
    /\ LET f == Top
           child_stage == Unwrap(f.child_stage)
           exec_node == with_stage_id(Unwrap(f.execution_plan_node), child_stage)
           attached == Attach(stack, f, exec_node)
       IN stack' = Pop([attached EXCEPT ![f.builder_ref].builder =
                           Some([Unwrap(@) EXCEPT !.children_stages =
                                    Append(@, child_stage)])])
    /\ UNCHANGED << plan, workers, pc, next_stage_id, stage_graph_builder,
                    root_stage, query, reads, topo_vars, api_vars >>

\* split: new_stage returned; build(root_stage.id) and Ok(Query)
split_return ==
    /\ pc = "split"
    /\ stack = << >>
    /\ query' = Some([stage_graph |-> build(stage_graph_builder, Unwrap(root_stage).id)])
    /\ pc' = "done"
    /\ UNCHANGED << plan, workers, stack, next_stage_id, stage_graph_builder,
                    root_stage, reads, topo_vars, api_vars >>

StageGraph == Unwrap(query).stage_graph

\* stage_ids_by_topo_order, up to the loop
topo_call ==
    /\ pc = "done"
    /\ topo_pc \in {"idle", "returned"}
    /\ topo_pc' = "loop"
    /\ topo_stack' = << StageGraph.root_stage_id >>
    /\ topo_ret' = << >>
    /\ topo_existing' = {}
    /\ topo_order' = << >>
    /\ UNCHANGED << plan, workers, pc, stack, next_stage_id, stage_graph_builder,
                    root_stage, query, reads, api_vars >>

\* one iteration of `while let Some(s) = stack.pop()`; stack.extend takes the
\* children in the iteration order of a HashSet, which is any order
topo_visit ==
    /\ topo_pc = "loop"
    /\ topo_stack # << >>
    /\ LET s == Last(topo_stack)
       IN IF s \in topo_existing
          THEN /\ topo_stack' = Pop(topo_stack)
               /\ UNCHANGED << topo_pc, topo_ret, topo_existing >>
          ELSE IF s \in DOMAIN StageGraph.child_edges
          THEN /\ \E order \in Orders(StageGraph.child_edges[s]) :
                     topo_stack' = Pop(topo_stack) \o order
               /\ topo_ret' = Append(topo_ret, s)
               /\ topo_existing' = topo_existing \cup {s}
               /\ topo_pc' = topo_pc
          ELSE /\ topo_pc' = "panic"
               /\ UNCHANGED << topo_stack, topo_ret, topo_existing >>
    /\ UNCHANGED << plan, workers, pc, stack, next_stage_id, stage_graph_builder,
                    root_stage, query, reads, topo_order, api_vars >>

\* the stack is empty: `ret.into_iter().rev()`
topo_return ==
    /\ topo_pc = "loop"
    /\ topo_stack = << >>
    /\ topo_order' = rev(topo_ret)
    /\ topo_pc' = "returned"
    /\ UNCHANGED << plan, workers, pc, stack, next_stage_id, stage_graph_builder,
                    root_stage, query, reads, topo_stack, topo_ret, topo_existing,
                    api_vars >>

\* Query::get_parents(&stage_id): `parent_edges.get(stage_id).unwrap()`
\* panics on a stage id that is not a key
get_parents ==
    /\ pc = "done"
    /\ \A c \in { get_parents_call[i] : i \in DOMAIN get_parents_call } :
          c.outcome # "panic"
    /\ \E stage_id \in 0..MaxNodes :
          get_parents_call' =
             IF stage_id \in DOMAIN StageGraph.parent_edges
             THEN Some([stage_id |-> stage_id, outcome |-> "returned",
                        parents |-> StageGraph.parent_edges[stage_id]])
             ELSE Some([stage_id |-> stage_id, outcome |-> "panic", parents |-> {}])
    /\ UNCHANGED << plan, workers, pc, stack, next_stage_id, stage_graph_builder,
                    root_stage, query, reads, topo_vars, builder_call >>

\* ------------------------------------- StageGraphBuilder, driven directly
\* the plan of one BatchSeqScan
ScanPlan == [parent |-> << 0 >>, type |-> << "BatchSeqScan" >>, dist |-> << "Any" >>]

\* stages to hand to add_node: two different stages for every id
BuilderStages ==
    { [id |-> k,
       root |-> ExecutionPlanNode_from(ScanPlan, 1),
       exchange_info |-> to_prost("Single", 1),
       parallelism |-> par] : k \in 0..(MaxBuilderIds - 1), par \in 1..2 }

BuilderCall(op, parent_id, child_id, stage, outcome) ==
    Some([op |-> op, parent_id |-> parent_id, child_id |-> child_id,
          stage |-> stage, outcome |-> outcome])

\* no operation has panicked
BuilderAlive ==
    \A c \in { builder_call[i] : i \in DOMAIN builder_call } : c.outcome # "panic"

\* StageGraphBuilder::add_node(stage)
builder_add_node ==
    /\ BuilderAlive
    /\ \E stage \in BuilderStages :
          /\ stage_graph_builder' = add_node(stage_graph_builder, stage)
          /\ builder_call' = BuilderCall("add_node", stage.id, stage.id, Some(stage), "ok")
    /\ UNCHANGED << plan, workers, pc, stack, next_stage_id, root_stage, query,
                    reads, topo_vars, get_parents_call >>

\* StageGraphBuilder::link_to_child(parent_id, child_id): the first unwrap
\* panics before any change, the second after child_edges was changed
builder_link_to_child ==
    /\ BuilderAlive
    /\ \E parent_id \in 0..(MaxBuilderIds - 1), child_id \in 0..(MaxBuilderIds - 1) :
          LET g == stage_graph_builder
          IN IF parent_id \notin DOMAIN g.child_edges
             THEN /\ stage_graph_builder' = g
                  /\ builder_call' = BuilderCall("link_to_child", parent_id, child_id,
                                                 None, "panic")
             ELSE IF child_id \notin DOMAIN g.parent_edges
             THEN /\ stage_graph_builder' =
                        [g EXCEPT !.child_edges[parent_id] = @ \cup {child_id}]
                  /\ builder_call' = BuilderCall("link_to_child", parent_id, child_id,
                                                 None, "panic")
             ELSE /\ stage_graph_builder' = link_to_child(g, parent_id, child_id)
                  /\ builder_call' = BuilderCall("link_to_child", parent_id, child_id,
                                                 None, "ok")
    /\ UNCHANGED << plan, workers, pc, stack, next_stage_id, root_stage, query,
                    reads, topo_vars, get_parents_call >>

\* the membership-change subsystem behind the Worker Node Manager: the worker
\* count changes at any point before split has returned
membership_change ==
    /\ pc \in {"new", "split"}
    /\ \E w \in 0..MaxWorkers :
          /\ w # workers
          /\ workers' = w
    /\ UNCHANGED << plan, pc, stack, next_stage_id, stage_graph_builder,
                    root_stage, query, reads, topo_vars, api_vars >>

Next ==
    \/ split_call
    \/ new_stage_entry
    \/ visit_node_exchange
    \/ visit_node_return
    \/ visit_node_other
    \/ visit_node_child
    \/ visit_node_attach
    \/ visit_exchange_entry
    \/ new_stage_finish
    \/ visit_exchange_linked
    \/ split_return
    \/ topo_call
    \/ topo_visit
    \/ topo_return

Spec == Init /\ [][Next]_vars

\* the steps of split alone
SplitNext ==
    \/ split_call
    \/ new_stage_entry
    \/ visit_node_exchange
    \/ visit_node_return
    \/ visit_node_other
    \/ visit_node_child
    \/ visit_node_attach
    \/ visit_exchange_entry
    \/ new_stage_finish
    \/ visit_exchange_linked
    \/ split_return

\* split on the plans with an exchange that is not unary
MalformedInit ==
    /\ plan \in MalformedPlans
    /\ workers \in 0..MaxWorkers
    /\ Fresh

MalformedNext == SplitNext \/ visit_exchange_panic

MalformedSpec == MalformedInit /\ [][MalformedNext]_vars

\* split, and then calls of get_parents on the Query
AccessorNext == SplitNext \/ get_parents

AccessorSpec == Init /\ [][AccessorNext]_vars

\* add_node and link_to_child called in any order on a new builder
BuilderInit ==
    /\ plan = ScanPlan
    /\ workers = 1
    /\ Fresh

BuilderNext == builder_add_node \/ builder_link_to_child

BuilderSpec == BuilderInit /\ [][BuilderNext]_vars

\* split interleaved with membership changes
MembershipInit ==
    /\ plan \in MembershipPlans
    /\ workers \in 0..MaxWorkers
    /\ Fresh

MembershipNext == SplitNext \/ membership_change

MembershipSpec == MembershipInit /\ [][MembershipNext]_vars

\* split and stage_ids_by_topo_order are synchronous code: a call that can
\* take a step takes it
FairSpec == Spec /\ WF_vars(Next)

\* ----------------------------------------------------------------------
\* Properties of the Query returned by split
\* ----------------------------------------------------------------------
Done == pc = "done"
StageIds == DOMAIN StageGraph.stages
Children(g, p) == IF p \in DOMAIN g.child_edges THEN g.child_edges[p] ELSE {}
Parents(g, c) == IF c \in DOMAIN g.parent_edges THEN g.parent_edges[c] ELSE {}
\* every id an edge map can mention
IdsOf(g) ==
    DOMAIN g.stages \cup DOMAIN g.child_edges \cup DOMAIN g.parent_edges
      \cup UNION { g.child_edges[k] : k \in DOMAIN g.child_edges }
      \cup UNION { g.parent_edges[k] : k \in DOMAIN g.parent_edges }

RECURSIVE NodesOf(_)
NodesOf(t) == {t} \cup UNION { NodesOf(t.children[i]) : i \in DOMAIN t.children }

ExchangeNodesOf(t) == { e \in NodesOf(t) : e.plan_node_type = "BatchExchange" }

\* C1: in the Stage Graph returned by split, for all stage ids p and c, c is
\* in child_edges[p] if and only if p is in parent_edges[c].
C1_EdgeMapsSymmetric ==
    Done => \A p \in IdsOf(StageGraph), c \in IdsOf(StageGraph) :
                (c \in Children(StageGraph, p)) <=> (p \in Parents(StageGraph, c))

\* a returned graph with a stage that has two children and a parent
C1_Witness ==
    /\ Done
    /\ \E p \in StageIds :
          /\ Cardinality(StageGraph.child_edges[p]) = 2
          /\ StageGraph.parent_edges[p] # {}

\* C2: the number of stages of the returned Query is 1 plus the number of
\* exchange operators of the input plan; a plan without exchange yields the
\* single stage 0, of parallelism 1.
C2_StageCount ==
    Done => /\ Cardinality(StageIds) = 1 + NumExchanges(plan)
            /\ NumExchanges(plan) = 0 =>
                  /\ StageIds = {0}
                  /\ StageGraph.stages[0].id = 0
                  /\ StageGraph.stages[0].parallelism = 1

\* a returned Query for a plan with three exchanges among six operators
C2_Witness ==
    /\ Done
    /\ NumExchanges(plan) = 3
    /\ PlanSize(plan) = 6
    /\ Cardinality(StageIds) = 4

\* C3: in every stage of the returned Query an Exchange node has stage_id set
\* and no children, and a node of any other type has stage_id unset; also
\* when an exchange is directly above an exchange.
C3_ExchangeNodeShape ==
    Done => \A k \in StageIds : \A e \in NodesOf(StageGraph.stages[k].root) :
                IF e.plan_node_type = "BatchExchange"
                THEN IsSome(e.stage_id) /\ e.children = << >>
                ELSE e.stage_id = None

\* chained exchanges: a stage whose root is an exchange node that points to
\* a stage whose root is an exchange node too
C3_Witness ==
    /\ Done
    /\ \E k \in StageIds :
          LET r == StageGraph.stages[k].root
          IN /\ r.plan_node_type = "BatchExchange"
             /\ IsSome(r.stage_id)
             /\ Unwrap(r.stage_id) \in StageIds
             /\ StageGraph.stages[Unwrap(r.stage_id)].root.plan_node_type = "BatchExchange"

\* C4: for every plan and worker count, 0 included, the returned Query has
\* root_stage_id 0, and stage 0 has parallelism 1 and the exchange_info of
\* Single rendered for parallelism 1.
C4_RootStage ==
    Done => /\ StageGraph.root_stage_id = 0
            /\ 0 \in StageIds
            /\ StageGraph.stages[0].parallelism = 1
            /\ StageGraph.stages[0].exchange_info = to_prost("Single", 1)

\* a returned Query with non-root stages on an empty cluster
C4_Witness ==
    /\ Done
    /\ workers = 0
    /\ Cardinality(StageIds) >= 2

\* C5: the worker count W does not change during split (no step of Spec
\* changes it); every stage of the returned Query other than the root stage
\* has parallelism W.
C5_NonRootParallelism ==
    Done => \A k \in StageIds \ {StageGraph.root_stage_id} :
                StageGraph.stages[k].parallelism = workers

\* three workers and a non-root stage below a non-root stage
C5_Witness ==
    /\ Done
    /\ workers = 3
    /\ \E k \in StageIds \ {StageGraph.root_stage_id} :
          /\ StageGraph.stages[k].parallelism = 3
          /\ StageGraph.parent_edges[k] \cap (StageIds \ {StageGraph.root_stage_id}) # {}

\* position of stage id k in the sequence the iterator yields
Pos(k) == CHOOSE i \in DOMAIN topo_order : topo_order[i] = k

TopoOrderOk ==
    topo_pc = "returned" =>
        /\ Len(topo_order) = Cardinality(StageIds)
        /\ \A k \in StageIds : \E i \in DOMAIN topo_order : topo_order[i] = k
        /\ \A i \in DOMAIN topo_order, j \in DOMAIN topo_order :
              topo_order[i] = topo_order[j] => i = j
        /\ \A p \in StageIds : \A c \in StageGraph.child_edges[p] : Pos(c) < Pos(p)
        /\ Last(topo_order) = StageGraph.root_stage_id

\* C6: on the Stage Graph returned by split, stage_ids_by_topo_order terminates
\* (a call that is in its loop returns, and never panics), and what it yields
\* is a permutation of the keys of stages in which every child of an edge of
\* child_edges comes strictly before its parent, the root stage id last.
C6_TopoOrder ==
    /\ [] TopoOrderOk
    /\ [] (topo_pc # "panic")
    /\ (topo_pc = "loop") ~> (topo_pc = "returned")

\* the iterator has returned on a graph of four stages with a branching stage
C6_Witness ==
    /\ topo_pc = "returned"
    /\ Len(topo_order) = 4
    /\ \E p \in StageIds : Cardinality(StageGraph.child_edges[p]) = 2

\* the QueryStageBuilders alive on the call stack
BuilderFrames == { j \in DOMAIN stack : IsSome(stack[j].builder) }
BuilderIds == { Unwrap(stack[j].builder).id : j \in BuilderFrames }

IdsDense ==
    /\ pc = "split" =>
          /\ BuilderIds \cup DOMAIN stage_graph_builder.stages = 0..(next_stage_id - 1)
          /\ BuilderIds \cap DOMAIN stage_graph_builder.stages = {}
          /\ Cardinality(BuilderFrames) + Cardinality(DOMAIN stage_graph_builder.stages)
                = next_stage_id
    /\ Done =>
          /\ StageIds = 0..(Cardinality(StageIds) - 1)
          /\ Cardinality(StageIds) = next_stage_id
          /\ \A k \in StageIds : StageGraph.stages[k].id = k
          /\ StageGraph.root_stage_id = 0

\* next_stage_id moves only when a stage is created, by one, and the stage
\* created gets the old value
IdStep ==
    next_stage_id' # next_stage_id =>
        /\ next_stage_id' = next_stage_id + 1
        /\ Top.fn = "new_stage"
        /\ Top.builder = None
        /\ IsSome(stack'[Len(stack)].builder)
        /\ Unwrap(stack'[Len(stack)].builder).id = next_stage_id
        /\ (next_stage_id = 0) <=> (Top.parent_parallelism = None)

\* C7: stage ids are dense and assigned in increasing order from 0: the keys
\* of stages are exactly 0..n-1 for the n stages created, no two stages get
\* the same id, next_stage_id grows by exactly one per created stage, and the
\* root stage gets 0.
C7_DenseStageIds == [] IdsDense /\ [][IdStep]_vars

\* a returned Query of five stages, the counter at five
C7_Witness ==
    /\ Done
    /\ next_stage_id = 5
    /\ StageIds = 0..4

\* the stages reachable from the stages of S through at most n child edges
RECURSIVE ReachFrom(_, _, _)
ReachFrom(g, S, n) ==
    IF n = 0 THEN S
    ELSE ReachFrom(g, S \cup UNION { Children(g, s) : s \in S }, n - 1)

\* the stages reachable from s through one child edge or more
Below(g, s) == ReachFrom(g, Children(g, s), Cardinality(IdsOf(g)))

\* C8: the returned Stage Graph is a tree rooted at root_stage_id: the root
\* has no parent, every other stage has exactly one parent, child_edges has
\* no cycle, and every stage is reachable from the root through child_edges.
C8_StageTree ==
    Done => /\ StageGraph.root_stage_id \in StageIds
            /\ Parents(StageGraph, StageGraph.root_stage_id) = {}
            /\ \A k \in StageIds \ {StageGraph.root_stage_id} :
                  Cardinality(Parents(StageGraph, k)) = 1
            /\ \A k \in IdsOf(StageGraph) : k \notin Below(StageGraph, k)
            /\ StageIds \subseteq
                  {StageGraph.root_stage_id} \cup Below(StageGraph, StageGraph.root_stage_id)

\* a returned graph three levels deep in which a non-root stage branches
C8_Witness ==
    /\ Done
    /\ \E k \in StageIds \ {StageGraph.root_stage_id} :
          /\ Cardinality(StageGraph.child_edges[k]) = 2
          /\ \E c \in StageGraph.child_edges[k] : StageGraph.parent_edges[c] = {k}

\* the stages whose Execution Plan Node tree holds no exchange node
LeafStages ==
    { k \in StageIds : ExchangeNodesOf(StageGraph.stages[k].root) = {} }

\* C9: in the returned Stage Graph stages, child_edges and parent_edges have
\* the same keys, with the empty set for leaves in child_edges and for the
\* root in parent_edges, and no edge map mentions an id that is not a key of
\* stages.
C9_SameKeys ==
    Done => /\ DOMAIN StageGraph.child_edges = StageIds
            /\ DOMAIN StageGraph.parent_edges = StageIds
            /\ IdsOf(StageGraph) = StageIds
            /\ \A k \in LeafStages : Children(StageGraph, k) = {}
            /\ Parents(StageGraph, StageGraph.root_stage_id) = {}

\* a returned graph with two leaves, of one root stage and of several stages
C9_Witness ==
    /\ Done
    /\ Cardinality(LeafStages) = 2
    /\ StageGraph.root_stage_id \notin LeafStages

\* C10: with 0 workers, split on a plan with an exchange fails with
\* EmptyCluster and returns no Query, so that no returned Query holds a stage
\* of parallelism 0; on a plan without exchange it returns the root stage
\* alone, of parallelism 1.
C10_EmptyClusterRejected ==
    /\ (Done /\ workers = 0) => NumExchanges(plan) = 0
    /\ Done => \A k \in StageIds : StageGraph.stages[k].parallelism >= 1
    /\ (Done /\ workers = 0 /\ NumExchanges(plan) = 0) =>
          /\ StageIds = {0}
          /\ StageGraph.stages[0].parallelism = 1

\* C11: on a plan with an exchange operator that has no input or two inputs,
\* split fails with a MalformedPlan error returned as a value: it neither
\* aborts nor returns a Query, and no second input of an exchange is left out
\* of a returned Query.
C11_MalformedRejected ==
    /\ pc # "panic"
    /\ (pc = "done") => MalformedExchanges(plan) = {}

\* C12: every node of the returned Query that is not an exchange node has as
\* many children as its operator has inputs, and its i-th child is the node
\* built from the i-th input, whether that input is an exchange or not.
C12_ChildrenOrder ==
    Done => \A k \in StageIds : \A e \in NodesOf(StageGraph.stages[k].root) :
                e.plan_node_type # "BatchExchange" =>
                    LET ins == inputs(plan, e.plan_node_id)
                    IN /\ Len(e.children) = Len(ins)
                       /\ \A i \in DOMAIN ins :
                             /\ e.children[i].plan_node_id = ins[i]
                             /\ e.children[i].plan_node_type = plan.type[ins[i]]

\* a node with two children of which exactly the second is an exchange node
C12_Witness ==
    /\ Done
    /\ \E k \in StageIds : \E e \in NodesOf(StageGraph.stages[k].root) :
          /\ Len(e.children) = 2
          /\ e.children[1].plan_node_type # "BatchExchange"
          /\ e.children[2].plan_node_type = "BatchExchange"
          /\ e.children[1].plan_node_id < e.children[2].plan_node_id

\* ----------------------------------------------------------------------
\* The Stage Graph as a function of the plan p and the worker count w
\* ----------------------------------------------------------------------
ExchangesOf(p) == { n \in 1..PlanSize(p) : p.type[n] = "BatchExchange" }

\* the id of the stage below exchange x: exchanges are numbered in pre-order
StageBelow(p, x) == 1 + Cardinality({ m \in ExchangesOf(p) : m < x })

\* the stage whose tree holds the node of operator n
RECURSIVE StageHolding(_, _)
StageHolding(p, n) ==
    IF p.parent[n] = 0 THEN 0
    ELSE IF p.type[p.parent[n]] = "BatchExchange" THEN StageBelow(p, p.parent[n])
    ELSE StageHolding(p, p.parent[n])

RECURSIVE ExpectedNode(_, _)
ExpectedNode(p, n) ==
    IF p.type[n] = "BatchExchange"
    THEN [plan_node_id |-> n, plan_node_type |-> p.type[n],
          children |-> << >>, stage_id |-> Some(StageBelow(p, n))]
    ELSE [plan_node_id |-> n, plan_node_type |-> p.type[n],
          children |-> [i \in 1..Len(inputs(p, n)) |-> ExpectedNode(p, inputs(p, n)[i])],
          stage_id |-> None]

ExpectedParallelism(k, w) == IF k = 0 THEN 1 ELSE w

\* the exchange above stage k, for k > 0
ExchangeAbove(p, k) == CHOOSE x \in ExchangesOf(p) : StageBelow(p, x) = k

ExpectedStage(p, w, k) ==
    IF k = 0
    THEN [id |-> 0, root |-> ExpectedNode(p, 1),
          exchange_info |-> [mode |-> "Single", output_count |-> 1],
          parallelism |-> 1]
    ELSE LET x == ExchangeAbove(p, k)
         IN [id |-> k, root |-> ExpectedNode(p, inputs(p, x)[1]),
             exchange_info |-> [mode |-> p.dist[x],
                                output_count |->
                                    ExpectedParallelism(StageHolding(p, x), w)],
             parallelism |-> w]

ExpectedStageGraph(p, w) ==
    LET ids == 0..Cardinality(ExchangesOf(p))
    IN [root_stage_id |-> 0,
        stages |-> [k \in ids |-> ExpectedStage(p, w, k)],
        child_edges |-> [k \in ids |->
            { StageBelow(p, x) : x \in { y \in ExchangesOf(p) : StageHolding(p, y) = k } }],
        parent_edges |-> [k \in ids |->
            IF k = 0 THEN {} ELSE { StageHolding(p, ExchangeAbove(p, k)) }]]

\* C13: split is deterministic: the Stage Graph it returns (stage ids, both
\* edge maps, parallelism and exchange_info of every stage, every Execution
\* Plan Node tree) is one function of the plan and the worker count, so any
\* two runs on the same plan with the same worker count return the same one.
C13_Deterministic ==
    Done => StageGraph = ExpectedStageGraph(plan, workers)

\* a returned graph of four stages, two of them below one stage, two workers
C13_Witness ==
    /\ Done
    /\ workers = 2
    /\ Cardinality(StageIds) = 4
    /\ \E k \in StageIds : StageGraph.child_edges[k] = {k + 1, k + 2}

\* C14: get_parents called with a stage id that is not in the stage graph
\* returns a structured error and does not abort; called with a stage id of
\* the graph it returns exactly parent_edges[stage_id].
C14_GetParentsStructuredError ==
    IsSome(get_parents_call) =>
        LET c == Unwrap(get_parents_call)
        IN /\ c.outcome # "panic"
           /\ c.stage_id \in StageIds =>
                 /\ c.outcome = "returned"
                 /\ c.parents = StageGraph.parent_edges[c.stage_id]
           /\ c.stage_id \notin StageIds => c.outcome = "error"

\* a step that publishes to the Stage Graph Builder: one stage is added, the
\* new edges go from it to stages added in earlier steps, every link_to_child
\* found both of its ids, and the stage added is stage 0 only when all other
\* stages are in
PublishStep ==
    LET g == stage_graph_builder
        h == stage_graph_builder'
        added == DOMAIN h.stages \ DOMAIN g.stages
    IN /\ (0 \in DOMAIN g.stages) => h = g
       /\ h # g =>
             /\ Cardinality(added) = 1
             /\ DOMAIN g.stages \subseteq DOMAIN h.stages
             /\ finish_ok(Unwrap(Top.builder), g)
             /\ \A p \in DOMAIN h.child_edges :
                   \A c \in h.child_edges[p] \ Children(g, p) :
                      /\ p \in added
                      /\ c \in DOMAIN g.stages
                      /\ p \in Parents(h, c)
             /\ \A c \in DOMAIN h.parent_edges :
                   \A p \in h.parent_edges[c] \ Parents(g, c) :
                      /\ p \in added
                      /\ c \in DOMAIN g.stages
             /\ (0 \in added) =>
                   /\ DOMAIN h.stages = 0..(next_stage_id - 1)
                   /\ Len(stack) = 1

\* C15: stages are published to the Stage Graph Builder in post-order: for
\* every edge p -> c the add_node of c comes before the add_node of p,
\* link_to_child(p, c) is called after both were added (its unwraps never
\* panic), and the root stage is the last stage added.
C15_PostOrder == [][PublishStep]_vars /\ [](pc # "panic")

\* stage 1 is published with its edges to stages 2 and 3, stage 0 is not yet
C15_Witness ==
    /\ pc = "split"
    /\ DOMAIN stage_graph_builder.stages = {1, 2, 3}
    /\ stage_graph_builder.child_edges[1] = {2, 3}
    /\ stage_graph_builder.parent_edges[2] = {1}

\* the last operation on the builder, if any, completed
BuilderCallOk == builder_call = None \/ Unwrap(builder_call).outcome = "ok"

\* C16: starting from an empty Stage Graph Builder, after every add_node or
\* link_to_child that completes, in any order and with any arguments (also an
\* add_node of an id that already has edges), c is in child_edges[p] if and
\* only if p is in parent_edges[c].
C16_BuilderEdgesAgree ==
    BuilderCallOk =>
        \A p \in IdsOf(stage_graph_builder), c \in IdsOf(stage_graph_builder) :
            (c \in Children(stage_graph_builder, p))
               <=> (p \in Parents(stage_graph_builder, c))

\* what a call add_node(stage) did, g the builder before and h after
AddNodeStep ==
    LET g == stage_graph_builder
        h == stage_graph_builder'
        c == Unwrap(builder_call')
        stage == Unwrap(c.stage)
    IN (IsSome(builder_call') /\ c.op = "add_node" /\ vars' # vars) =>
          IF stage.id \in DOMAIN g.stages
          THEN /\ c.outcome = "error"
               /\ h = g
          ELSE /\ c.outcome = "ok"
               /\ h.stages = Insert(g.stages, stage.id, stage)
               /\ h.child_edges = Insert(g.child_edges, stage.id, {})
               /\ h.parent_edges = Insert(g.parent_edges, stage.id, {})

\* C17: add_node of a stage whose id is already in the builder fails with
\* DuplicateStageId and replaces neither the stage nor its edge sets;
\* add_node of a new id inserts the stage and sets child_edges[id] and
\* parent_edges[id] to the empty set, all other entries unchanged.
C17_AddNodeDuplicateFails == [][AddNodeStep]_vars

\* C18: for every exchange node of a stage P, the child stage it names has
\* the exchange_info of the exchange's distribution rendered with the
\* parallelism of P, the consumer, and not with the child's own; a child of
\* the root stage has it rendered for parallelism 1.
C18_ChildExchangeInfo ==
    Done => \A k \in StageIds :
                \A e \in ExchangeNodesOf(StageGraph.stages[k].root) :
                    LET child == StageGraph.stages[Unwrap(e.stage_id)]
                    IN /\ child.exchange_info =
                             to_prost(plan.dist[e.plan_node_id],
                                      StageGraph.stages[k].parallelism)
                       /\ k = StageGraph.root_stage_id =>
                             child.exchange_info = to_prost(plan.dist[e.plan_node_id], 1)

\* three workers: a child of the root stage, rendered for 1 and running on 3,
\* and below it a stage rendered for 3
C18_Witness ==
    /\ Done
    /\ workers = 3
    /\ \E k \in StageIds \ {0} :
          /\ StageGraph.parent_edges[k] = {0}
          /\ StageGraph.stages[k].parallelism = 3
          /\ StageGraph.stages[k].exchange_info.output_count = 1
          /\ \E c \in StageGraph.child_edges[k] :
                StageGraph.stages[c].exchange_info.output_count = 3

\* the stages created so far that are not the root stage
NonRootCreated == IF next_stage_id = 0 THEN 0 ELSE next_stage_id - 1

ReadsCount ==
    /\ reads = NonRootCreated
    /\ Done => reads = Cardinality(StageIds) - 1

\* the step that creates the builder of a stage reads the worker count once
\* if the stage is not the root and not at all if it is; the parallelism of
\* the stage is the count at that step; no other step reads; and no step
\* changes the parallelism of a builder or of a published stage
ReadStep ==
    LET top == Len(stack)
        creates == /\ stack # << >>
                   /\ Top.builder = None
                   /\ Len(stack') > top
                   /\ IsSome(stack'[top].builder)
    IN /\ creates =>
             LET b == Unwrap(stack'[top].builder)
             IN IF IsSome(Top.parent_parallelism)
                THEN reads' = reads + 1 /\ b.parallelism = workers
                ELSE reads' = reads /\ b.parallelism = 1 /\ b.id = 0
       /\ ~ creates => reads' = reads
       /\ \A j \in BuilderFrames :
             IF j \in DOMAIN stack' /\ IsSome(stack'[j].builder)
             THEN Unwrap(stack'[j].builder).parallelism = Unwrap(stack[j].builder).parallelism
             ELSE LET b == Unwrap(stack[j].builder)
                  IN /\ b.id \in DOMAIN stage_graph_builder'.stages
                     /\ stage_graph_builder'.stages[b.id].parallelism = b.parallelism
       /\ \A k \in DOMAIN stage_graph_builder.stages :
             /\ k \in DOMAIN stage_graph_builder'.stages
             /\ stage_graph_builder'.stages[k].parallelism =
                   stage_graph_builder.stages[k].parallelism
       /\ (pc = "split" /\ pc' = "done") =>
             \A k \in DOMAIN stage_graph_builder.stages :
                 Unwrap(query').stage_graph.stages[k].parallelism =
                    stage_graph_builder.stages[k].parallelism

\* C19: with the worker count changing at any point during split,
\* worker_node_count is read exactly once for every stage that is not the
\* root, when the stage is created, and never for the root; the parallelism
\* of the stage is the value read then and is not evaluated again; the
\* number of reads is the number of non-root stages.
C19_OneReadPerStage == [] ReadsCount /\ [][ReadStep]_vars

\* the count changed between the creation of two stages: the returned Query
\* has two non-root stages of different parallelism, after two reads
C19_Witness ==
    /\ Done
    /\ reads = 2
    /\ \E j \in StageIds \ {0}, k \in StageIds \ {0} :
          /\ StageGraph.stages[j].parallelism # StageGraph.stages[k].parallelism
          /\ StageGraph.stages[k].parallelism # workers

\* one step of the lifecycle of every stage.  Empty: a builder is created
\* with no root.  Visiting: the root of a builder is set once and then kept,
\* as is its id.  Finished: a builder leaves the stack only with its root
\* set, as the QueryStage made of its fields, under an id not yet in the
\* Stage Graph Builder; a stage in the Stage Graph Builder is never changed,
\* and the returned Query holds the same stages.
LifecycleStep ==
    /\ \A j \in (DOMAIN stack') \ BuilderFrames :
          IsSome(stack'[j].builder) => Unwrap(stack'[j].builder).root = None
    /\ \A j \in BuilderFrames :
          LET b == Unwrap(stack[j].builder)
          IN IF j \in DOMAIN stack' /\ IsSome(stack'[j].builder)
             THEN LET b2 == Unwrap(stack'[j].builder)
                  IN /\ b2.id = b.id
                     /\ b2.parallelism = b.parallelism
                     /\ b2.exchange_info = b.exchange_info
                     /\ IsSome(b.root) => b2.root = b.root
             ELSE /\ IsSome(b.root)
                  /\ b.id \notin DOMAIN stage_graph_builder.stages
                  /\ b.id \in DOMAIN stage_graph_builder'.stages
                  /\ stage_graph_builder'.stages[b.id] = QueryStage_of(b)
    /\ \A k \in DOMAIN stage_graph_builder.stages :
          /\ k \in DOMAIN stage_graph_builder'.stages
          /\ stage_graph_builder'.stages[k] = stage_graph_builder.stages[k]
    /\ (DOMAIN stage_graph_builder'.stages) \ DOMAIN stage_graph_builder.stages
          \subseteq BuilderIds
    /\ (pc = "split" /\ pc' = "done") =>
          Unwrap(query').stage_graph.stages = stage_graph_builder.stages

\* a builder whose visit has returned has its root
RootAtFinish ==
    /\ pc # "panic"
    /\ \A j \in BuilderFrames :
          (j = Len(stack) /\ stack[j].pc = "finish") => IsSome(Unwrap(stack[j].builder).root)

\* C20: every stage goes Empty -> Visiting -> Finished: its builder starts
\* with no root, the root is installed once during the visit and is there
\* when finish is called, and a stage added to the Stage Graph Builder keeps
\* its id, parallelism, exchange_info and node tree in every later step.
C20_StageLifecycle == [] RootAtFinish /\ [][LifecycleStep]_vars

\* the three states at once: a stage in the Stage Graph Builder, a second
\* one with its root installed and about to finish, and their parent still
\* without a root
C20_Witness ==
    /\ pc = "split"
    /\ Len(stack) > 1
    /\ Top.fn = "new_stage"
    /\ Top.pc = "finish"
    /\ IsSome(Unwrap(Top.builder).root)
    /\ Unwrap(Top.builder).root[1].children # << >>
    /\ DOMAIN stage_graph_builder.stages # {}
    /\ \E j \in BuilderFrames : Unwrap(stack[j].builder).root = None

\* the exchange nodes of the returned Query, each with the stage that holds it
AllExchangeNodes ==
    UNION { {k} \X ExchangeNodesOf(StageGraph.stages[k].root) : k \in StageIds }

\* C21: in the Query returned by split, for every stage p the stage_id values
\* of the exchange nodes in p's tree are exactly child_edges[p], each is a key
\* of stages, no two exchange nodes of the query carry the same stage_id, and
\* the stage an exchange node names is the one whose root was built from the
\* single input of that exchange.
C21_ExchangeNodesNameChildren ==
    Done =>
      /\ \A p \in StageIds :
            LET ex == ExchangeNodesOf(StageGraph.stages[p].root)
            IN /\ \A e \in ex : IsSome(e.stage_id) /\ Unwrap(e.stage_id) \in StageIds
               /\ { Unwrap(e.stage_id) : e \in ex } = StageGraph.child_edges[p]
               /\ \A e \in ex :
                     /\ Len(inputs(plan, e.plan_node_id)) = 1
                     /\ StageGraph.stages[Unwrap(e.stage_id)].root.plan_node_id
                           = inputs(plan, e.plan_node_id)[1]
      /\ \A x \in AllExchangeNodes, y \in AllExchangeNodes :
            x[2].stage_id = y[2].stage_id => x = y
      /\ Cardinality(AllExchangeNodes) = NumExchanges(plan)

\* a returned Query with a stage holding two exchange nodes and a stage whose
\* root is itself an exchange node
C21_Witness ==
    /\ Done
    /\ \E p \in StageIds :
          Cardinality(ExchangeNodesOf(StageGraph.stages[p].root)) = 2
    /\ \E k \in StageIds \ {0} :
          /\ StageGraph.stages[k].root.plan_node_type = "BatchExchange"
          /\ StageGraph.stages[Unwrap(StageGraph.stages[k].root.stage_id)].root.plan_node_type
                = "BatchSeqScan"

\* the nodes of a tree in the order of the visit, left to right
RECURSIVE PreOrderOf(_)
RECURSIVE PreOrderOfAll(_, _)
PreOrderOf(t) == << t >> \o PreOrderOfAll(t.children, 1)
PreOrderOfAll(ts, i) ==
    IF i > Len(ts) THEN << >>
    ELSE PreOrderOf(ts[i]) \o PreOrderOfAll(ts, i + 1)

\* the child stage ids of the exchange nodes of stage k, left to right
ExchangeIdsInOrder(k) ==
    LET seq == PreOrderOf(StageGraph.stages[k].root)
        RECURSIVE pick(_)
        pick(i) == IF i > Len(seq) THEN << >>
                   ELSE IF seq[i].plan_node_type = "BatchExchange"
                        THEN << Unwrap(seq[i].stage_id) >> \o pick(i + 1)
                        ELSE pick(i + 1)
    IN pick(1)

\* the stage s and all the stages below it
SubGraphOf(s) == {s} \cup Below(StageGraph, s)

IdsPreOrder ==
    Done =>
      /\ \A p \in StageIds : \A c \in StageGraph.child_edges[p] : c > p
      /\ \A p \in StageIds :
            LET ids == ExchangeIdsInOrder(p)
            IN \A i \in DOMAIN ids, j \in DOMAIN ids :
                  i < j => \A d \in SubGraphOf(ids[i]) : ids[j] > d

\* a stage is published when every stage created after it is published
PublishAfterLater ==
    \A k \in (DOMAIN stage_graph_builder'.stages) \ DOMAIN stage_graph_builder.stages :
        /\ k < next_stage_id
        /\ (k + 1)..(next_stage_id - 1) \subseteq DOMAIN stage_graph_builder.stages

\* C22: stage ids are allocated in pre-order of the exchange cuts and stages
\* are published in post-order: in the returned Query every child stage's id
\* is greater than its parent's, and among the exchanges of one stage, left
\* to right, the child stage id of a later exchange is greater than every
\* stage id in the sub-graph of an earlier exchange.
C22_IdsPreOrder == [] IdsPreOrder /\ [][PublishAfterLater]_vars

\* a returned Query where the first exchange of a stage has a sub-graph of two
\* stages and the second exchange's child stage comes after both
C22_Witness ==
    /\ Done
    /\ \E p \in StageIds :
          LET ids == ExchangeIdsInOrder(p)
          IN /\ Len(ids) = 2
             /\ Cardinality(SubGraphOf(ids[1])) = 2
             /\ ids[2] = ids[1] + 2

====
